---- MODULE Spec2Model ----
(***************************************************************************)
(* Condition reconciliation and trial ingestion of the pacman acquisition  *)
(* schema: ConditionParams (with its part tables), TaskState and           *)
(* Behavior.make, as written in                                            *)
(* churchland_pipeline_python/tasks/pacman/pacman_acquisition.py.          *)
(*                                                                         *)
(* Numbers stored in decimal(5,4) columns are written as integers counting *)
(* units of 0.00001, so 0.1 is 10000 and 0.12345 is 12345.                 *)
(***************************************************************************)
EXTENDS Integers, FiniteSets, Sequences, TLC

VARIABLES
    db,       \* the tables: table name -> set of rows
    fs,       \* recording -> its behavior directory, summary file and hardware
    pc,       \* recording -> position of its Behavior.make call
    todo,     \* recording -> files the running loop has not visited yet
    loc,      \* recording -> local variables of its Behavior.make call
    error,    \* recording -> exception that ended its last Behavior.make call
    resolved  \* history: (bundle, condition_id) of each condition created or found

vars == <<db, fs, pc, todo, loc, error, resolved>>

-----------------------------------------------------------------------------
(* Bounds of the model *)

MaxRecordings == 2

MaxParamFiles == 2

MaxShapeTrials == 2

Recordings == 1..MaxRecordings

-----------------------------------------------------------------------------
(* Column types of the table definitions *)

DecimalColumns ==
    {"force_offset", "target_duration", "target_offset", "target_pad",
     "target_amplitude", "target_frequency", "target_frequency_init",
     "target_frequency_final"}

\* decimal(5,4): a value is rounded (half up) to four decimal places when stored
Decimal54(v) == ((v + 5) \div 10) * 10

\* the value a row holds once it is stored in its table
Store(row) ==
    [k \in DOMAIN row |-> IF k \in DecimalColumns THEN Decimal54(row[k]) ELSE row[k]]

TableNames ==
    {"ConditionParams", "Force", "Stim", "Target", "Static", "Ramp", "Sine", "Chirp",
     "TaskState", "Behavior", "BehaviorCondition", "BehaviorTrial"}

ConditionParams == db["ConditionParams"]
Force == db["Force"]
Stim == db["Stim"]
Target == db["Target"]
Static == db["Static"]
Ramp == db["Ramp"]
Sine == db["Sine"]
Chirp == db["Chirp"]
TaskState == db["TaskState"]
Behavior == db["Behavior"]
BehaviorCondition == db["BehaviorCondition"]
BehaviorTrial == db["BehaviorTrial"]

\* the attributes of the Stim part table besides its key
StimColumns ==
    {"stim_current", "stim_electrode", "stim_polarity", "stim_pulses",
     "stim_width1", "stim_width2", "stim_interphase", "stim_frequency"}

-----------------------------------------------------------------------------
(* Relational operators used by the queries *)

\* rel & attr: rows equal to attr on every attribute of attr that is in the heading
Restrict(rel, attr) ==
    {row \in rel : \A k \in (DOMAIN attr) \cap (DOMAIN row) : row[k] = attr[k]}

\* A * B: natural join on the attributes the headings share
Join(A, B) ==
    {a @@ b : <<a, b>> \in
        {p \in A \X B : \A k \in (DOMAIN p[1]) \cap (DOMAIN p[2]) : p[1][k] = p[2][k]}}

\* A - B: rows of A matching no row of B on the attributes the headings share
AntiJoin(A, B) ==
    {a \in A : ~ \E b \in B : \A k \in (DOMAIN a) \cap (DOMAIN b) : a[k] = b[k]}

Fetch(rel, attribute) == {row[attribute] : row \in rel}

Max(S) == CHOOSE m \in S : \A x \in S : x <= m

-----------------------------------------------------------------------------
(* ConditionParams.parseparams *)

RequiredKeys == {"frcMax", "frcOff", "frcPol", "duration", "offset", "padDur", "type"}

\* the key written for each Speedgoat key matching stim([A-Z]\w*): 'stim_' + lower(name)
StimKeyAttribute ==
    [stimCurrent |-> "stim_current", stimElectrode |-> "stim_electrode",
     stimPolarity |-> "stim_polarity", stimPulses |-> "stim_pulses",
     stimWidth1 |-> "stim_width1", stimWidth2 |-> "stim_width2",
     stimInterphase |-> "stim_interphase", stimFrequency |-> "stim_frequency",
     stimDelay |-> "stim_delay", stimRamp |-> "stim_ramp"]

StimOn(params) == "stim" \in DOMAIN params /\ params["stim"] = 1

force_attr(params) ==
    [force_max |-> params["frcMax"],
     force_offset |-> params["frcOff"],
     force_inverted |-> (params["frcPol"] = -1)]

stim_attr(params) ==
    IF StimOn(params)
    THEN LET keys == {k \in (DOMAIN params) \cap (DOMAIN StimKeyAttribute) : k # "stimDelay"}
             key_of(a) == CHOOSE k \in keys : StimKeyAttribute[k] = a
         IN  [a \in {StimKeyAttribute[k] : k \in keys} |-> params[key_of(a)]]
    ELSE << >>

targ_attr(params) ==
    [target_duration |-> params["duration"],
     target_offset |-> params["offset"][1],
     target_pad |-> params["padDur"]]

targ_type_attr(params) ==
    CASE params["type"] = "STA" -> << >>
      [] params["type"] = "RMP" -> [target_amplitude |-> params["amplitude"][1]]
      [] params["type"] = "SIN" -> [target_amplitude |-> params["amplitude"][1],
                                    target_frequency |-> params["frequency"][1]]
      [] params["type"] = "CHP" -> [target_amplitude |-> params["amplitude"][1],
                                    target_frequency_init |-> params["frequency"][1],
                                    target_frequency_final |-> params["frequency"][2]]

\* the part tables of SIN and CHP taken for one another
targ_type_rel_swapped(params) ==
    CASE params["type"] = "STA" -> "Static"
      [] params["type"] = "RMP" -> "Ramp"
      [] params["type"] = "SIN" -> "Chirp"
      [] params["type"] = "CHP" -> "Sine"

\* the name of the part table targ_type_rel stands for
targ_type_rel(params) ==
    CASE params["type"] = "STA" -> "Static"
      [] params["type"] = "RMP" -> "Ramp"
      [] params["type"] = "SIN" -> "Sine"
      [] params["type"] = "CHP" -> "Chirp"

\* the exception parseparams raises on this record, "none" when it returns
ParseError(params) ==
    IF ~ (RequiredKeys \subseteq DOMAIN params) THEN "KeyError"
    ELSE IF params["type"] \notin {"STA", "RMP", "SIN", "CHP"} THEN "UnboundLocalError"
    ELSE IF params["type"] # "STA" /\ "amplitude" \notin DOMAIN params THEN "KeyError"
    ELSE IF params["type"] \in {"SIN", "CHP"} /\ "frequency" \notin DOMAIN params THEN "KeyError"
    ELSE "none"

cond_attr(params) ==
    [Force |-> force_attr(params), Stim |-> stim_attr(params),
     Target |-> targ_attr(params), TargetType |-> targ_type_attr(params)]

\* what parseparams returns: the attributes, the relation to look the condition up
\* in (with Stim joined, or excluded) and the part table of the target type
parseparams(params) ==
    [cond_attr |-> cond_attr(params), with_stim |-> StimOn(params),
     targ_type_rel |-> targ_type_rel(params)]

\* cond_rel, evaluated on the tables as they are now
cond_rel(params) ==
    Join(Join(IF StimOn(params) THEN Join(Force, Stim) ELSE AntiJoin(Force, Stim),
              Target),
         db[targ_type_rel(params)])

\* {k: v for d in cond_attr.values() for k, v in d.items()}
all_cond_attr(params) ==
    force_attr(params) @@ stim_attr(params) @@ targ_attr(params) @@ targ_type_attr(params)

\* cond_rel & all_cond_attr
Lookup(params) == Restrict(cond_rel(params), all_cond_attr(params))

-----------------------------------------------------------------------------
(* Smallest unused id *)

\* the first i of range(i, stop) that is not in ids
RECURSIVE FirstUnused(_, _, _)
FirstUnused(i, stop, ids) ==
    IF i \notin ids THEN i ELSE FirstUnused(i + 1, stop, ids)

\* a new id after the largest one in use
NewIdAfterMax(ids) ==
    IF ids = {} THEN 0 ELSE Max(ids) + 1

\* 0 on an empty table, else next(i for i in range(2+max(ids)) if i not in ids)
NewId(ids) ==
    IF ids = {} THEN 0 ELSE FirstUnused(0, 2 + Max(ids), ids)

-----------------------------------------------------------------------------
(* Files of a recording's behavior directory: <pre>_beh_<trial>.<ext> *)

File(pre, trial, ext) == [pre |-> pre, trial |-> trial, ext |-> ext]

NoFile == File("", 0, "")

\* f_param.replace('params','data'): every occurrence in the name is replaced
ReplaceParamsData(f) ==
    [f EXCEPT !.pre = IF @ = "params" THEN "data" ELSE @,
              !.ext = IF @ = "params" THEN "data" ELSE @]

\* f_data.replace('data','params'): every occurrence in the name is replaced
ReplaceDataParams(f) ==
    [f EXCEPT !.pre = IF @ = "data" THEN "params" ELSE @,
              !.ext = IF @ = "data" THEN "params" ELSE @]

param_files(r) == {f \in DOMAIN fs[r].params : f.ext = "params"}

data_files(r) == {f \in fs[r].data : f.ext = "data"}

\* speedgoat.readtrialparams(behavior_path + f)
readtrialparams(r, f) == fs[r].params[f]

-----------------------------------------------------------------------------
(* Behavior.make *)

NoLoc == [file |-> NoFile, condition_id |-> -1, part |-> "", part_id |-> -1, target_id |-> -1]

Insert(table, row) == [db EXCEPT ![table] = @ \cup {row}]

\* the exception leaves make: the call is over, what it wrote stays
Raise(r, exception) ==
    /\ pc' = [pc EXCEPT ![r] = "raised"]
    /\ error' = [error EXCEPT ![r] = exception]
    /\ todo' = [todo EXCEPT ![r] = {}]
    /\ loc' = [loc EXCEPT ![r] = NoLoc]

\* the task states of the summary replace the rows that have their ids
InsertReplace(summary) ==
    {s \in TaskState : s.task_state_id \notin Fetch(summary, "task_state_id")} \cup summary

\* line 262: TaskState.insert(summary, skip_duplicates=True)
InsertSkipDuplicates(summary) ==
    TaskState \cup {s \in summary : s.task_state_id \notin Fetch(TaskState, "task_state_id")}

\* lines 244-267: the Behavior entry, the task states, the file lists
MakeStart(r) ==
    /\ pc[r] = "idle"
    /\ [recording |-> r] \notin Behavior
    /\ IF fs[r].hardware = "Speedgoat"
           THEN /\ db' = [db EXCEPT !["Behavior"] = @ \cup {[recording |-> r]},
                                    !["TaskState"] = InsertSkipDuplicates(fs[r].summary)]
                /\ pc' = [pc EXCEPT ![r] = "conditions"]
                /\ todo' = [todo EXCEPT ![r] = param_files(r)]
           ELSE /\ db' = Insert("Behavior", [recording |-> r])
                /\ pc' = [pc EXCEPT ![r] = "done"]
                /\ todo' = todo
    /\ UNCHANGED <<fs, loc, error, resolved>>

\* the call goes through the files of a recording that has its Behavior entry
MakeAgainRerun(r) ==
    /\ pc[r] \in {"done", "raised"}
    /\ [recording |-> r] \in Behavior
    /\ error[r] # "DuplicateError"
    /\ pc' = [pc EXCEPT ![r] = "conditions"]
    /\ todo' = [todo EXCEPT ![r] = param_files(r)]
    /\ UNCHANGED <<db, fs, loc, error, resolved>>

\* line 244 on a recording that already has its Behavior entry
MakeAgain(r) ==
    /\ pc[r] \in {"done", "raised"}
    /\ [recording |-> r] \in Behavior
    /\ error[r] # "DuplicateError"
    /\ Raise(r, "DuplicateError")
    /\ UNCHANGED <<db, fs, resolved>>

\* lines 276-278: no data file for this parameter file
MissingDataFile(r) ==
    /\ pc[r] = "conditions"
    /\ \E f \in todo[r] :
        /\ ReplaceParamsData(f) \notin data_files(r)
        /\ todo' = [todo EXCEPT ![r] = @ \ {f}]
    /\ UNCHANGED <<db, fs, pc, loc, error, resolved>>

\* a parameter file that does not parse is skipped
ParamsParseSkip(r) ==
    /\ pc[r] = "conditions"
    /\ \E f \in todo[r] :
        /\ ReplaceParamsData(f) \in data_files(r)
        /\ ParseError(readtrialparams(r, f)) # "none"
        /\ todo' = [todo EXCEPT ![r] = @ \ {f}]
    /\ UNCHANGED <<db, fs, pc, loc, error, resolved>>

\* line 285: parseparams raises
ParamsParseError(r) ==
    /\ pc[r] = "conditions"
    /\ \E f \in todo[r] :
        /\ ReplaceParamsData(f) \in data_files(r)
        /\ ParseError(readtrialparams(r, f)) # "none"
        /\ Raise(r, ParseError(readtrialparams(r, f)))
    /\ UNCHANGED <<db, fs, resolved>>

\* line 291: the condition exists
ConditionExists(r) ==
    /\ pc[r] = "conditions"
    /\ \E f \in todo[r] :
        /\ ReplaceParamsData(f) \in data_files(r)
        /\ ParseError(readtrialparams(r, f)) = "none"
        /\ Lookup(readtrialparams(r, f)) # {}
        /\ todo' = [todo EXCEPT ![r] = @ \ {f}]
        /\ resolved' = resolved \cup
              {[bundle |-> parseparams(readtrialparams(r, f)), condition_id |-> c] :
                 c \in Fetch(Lookup(readtrialparams(r, f)), "condition_id")}
    /\ UNCHANGED <<db, fs, pc, loc, error>>

\* lines 291-300: no such condition, choose its id
NewCondition(r) ==
    /\ pc[r] = "conditions"
    /\ \E f \in todo[r] :
        /\ ReplaceParamsData(f) \in data_files(r)
        /\ ParseError(readtrialparams(r, f)) = "none"
        /\ Lookup(readtrialparams(r, f)) = {}
        /\ loc' = [loc EXCEPT ![r] = [NoLoc EXCEPT
                    !.file = f,
                    !.condition_id = NewId(Fetch(ConditionParams, "condition_id"))]]
    /\ pc' = [pc EXCEPT ![r] = "insert_condition"]
    /\ UNCHANGED <<db, fs, todo, error, resolved>>

\* line 301
InsertConditionParams(r) ==
    /\ pc[r] = "insert_condition"
    /\ IF loc[r].condition_id \in Fetch(ConditionParams, "condition_id")
       THEN /\ Raise(r, "DuplicateError")
            /\ db' = db
       ELSE /\ db' = Insert("ConditionParams", [condition_id |-> loc[r].condition_id])
            /\ pc' = [pc EXCEPT ![r] = "part"]
            /\ loc' = [loc EXCEPT ![r].part = "Force"]
            /\ UNCHANGED <<todo, error>>
    /\ UNCHANGED <<fs, resolved>>

cond_part_attr(r) == cond_attr(readtrialparams(r, loc[r].file))[loc[r].part]

cond_part_id(part) ==
    CASE part = "Force" -> "force_id"
      [] part = "Stim" -> "stim_id"
      [] part = "Target" -> "target_id"

\* the next round of the loop of line 304, or line 330 after its last round
PartDone(r, target_id) ==
    /\ pc' = [pc EXCEPT ![r] = IF loc[r].part = "Target" THEN "insert_target_type" ELSE "part"]
    /\ loc' = [loc EXCEPT ![r].part = CASE loc[r].part = "Force" -> "Stim"
                                         [] loc[r].part = "Stim" -> "Target"
                                         [] loc[r].part = "Target" -> "",
                          ![r].part_id = -1,
                          ![r].target_id = target_id]

\* lines 309-310: no attributes for this part table
PartContinue(r) ==
    /\ pc[r] = "part"
    /\ DOMAIN cond_part_attr(r) = {}
    /\ PartDone(r, loc[r].target_id)
    /\ UNCHANGED <<db, fs, todo, error, resolved>>

\* a new id for the part whether or not its attributes are stored already
ResolveIdsWithoutReuse(part, attr) ==
    {NewId(Fetch(db[part], cond_part_id(part)))}

\* lines 315-325: the ids line 323 or line 325 may give the part
ResolveIds(part, attr) ==
    IF Restrict(db[part], attr) = {}
    THEN {NewId(Fetch(db[part], cond_part_id(part)))}
    ELSE Fetch(Restrict(db[part], attr), cond_part_id(part))

\* lines 312-325: the id of the part, reused or new
ResolvePartId(r) ==
    /\ pc[r] = "part"
    /\ DOMAIN cond_part_attr(r) # {}
    /\ \E id \in ResolveIds(loc[r].part, cond_part_attr(r)) :
         loc' = [loc EXCEPT ![r].part_id = id]
    /\ pc' = [pc EXCEPT ![r] = "insert_part"]
    /\ UNCHANGED <<db, fs, todo, error, resolved>>

\* line 327
InsertPart(r) ==
    /\ pc[r] = "insert_part"
    /\ LET part == loc[r].part
           row == [condition_id |-> loc[r].condition_id]
                    @@ cond_part_attr(r)
                    @@ (cond_part_id(part) :> loc[r].part_id)
           same_key == {x \in db[part] :
                          /\ x.condition_id = row.condition_id
                          /\ x[cond_part_id(part)] = loc[r].part_id}
       IN  IF same_key # {}
           THEN /\ Raise(r, "DuplicateError")
                /\ db' = db
           ELSE IF part = "Stim" /\ DOMAIN cond_part_attr(r) # StimColumns
           THEN /\ Raise(r, "DataJointError")
                /\ db' = db
           ELSE /\ db' = Insert(part, Store(row))
                /\ PartDone(r, IF part = "Target" THEN loc[r].part_id ELSE loc[r].target_id)
                /\ UNCHANGED <<todo, error>>
    /\ UNCHANGED <<fs, resolved>>

\* the target type row keyed by the condition's id in place of the target's
InsertTargetTypeOwnId(r) ==
    /\ pc[r] = "insert_target_type"
    /\ LET params == readtrialparams(r, loc[r].file)
           row == [condition_id |-> loc[r].condition_id]
                    @@ targ_type_attr(params)
                    @@ [target_id |-> loc[r].condition_id]
       IN  /\ db' = Insert(targ_type_rel(params), Store(row))
           /\ resolved' = resolved \cup
                 {[bundle |-> parseparams(params), condition_id |-> loc[r].condition_id]}
    /\ pc' = [pc EXCEPT ![r] = "conditions"]
    /\ todo' = [todo EXCEPT ![r] = @ \ {loc[r].file}]
    /\ loc' = [loc EXCEPT ![r] = NoLoc]
    /\ UNCHANGED <<fs, error>>

\* line 330
InsertTargetType(r) ==
    /\ pc[r] = "insert_target_type"
    /\ LET params == readtrialparams(r, loc[r].file)
           row == [condition_id |-> loc[r].condition_id]
                    @@ targ_type_attr(params)
                    @@ [target_id |-> loc[r].target_id]
       IN  /\ db' = Insert(targ_type_rel(params), Store(row))
           /\ resolved' = resolved \cup
                 {[bundle |-> parseparams(params), condition_id |-> loc[r].condition_id]}
    /\ pc' = [pc EXCEPT ![r] = "conditions"]
    /\ todo' = [todo EXCEPT ![r] = @ \ {loc[r].file}]
    /\ loc' = [loc EXCEPT ![r] = NoLoc]
    /\ UNCHANGED <<fs, error>>

\* line 334, after the loop of line 270 has ended
FetchSuccessState(r) ==
    /\ pc[r] = "conditions"
    /\ todo[r] = {}
    /\ IF Cardinality(Restrict(TaskState, [task_state_name |-> "Success"])) = 1
       THEN /\ pc' = [pc EXCEPT ![r] = "trials"]
            /\ todo' = [todo EXCEPT ![r] = data_files(r)]
            /\ UNCHANGED <<loc, error>>
       ELSE Raise(r, "DataJointError")
    /\ UNCHANGED <<db, fs, resolved>>

\* lines 343-345: no parameter file for this data file
MissingParamsFile(r) ==
    /\ pc[r] = "trials"
    /\ \E f \in todo[r] :
        /\ ReplaceDataParams(f) \notin param_files(r)
        /\ todo' = [todo EXCEPT ![r] = @ \ {f}]
    /\ UNCHANGED <<db, fs, pc, loc, error, resolved>>

\* line 349: parseparams raises
TrialParseError(r) ==
    /\ pc[r] = "trials"
    /\ \E f \in todo[r] :
        /\ ReplaceDataParams(f) \in param_files(r)
        /\ ParseError(readtrialparams(r, ReplaceDataParams(f))) # "none"
        /\ Raise(r, ParseError(readtrialparams(r, ReplaceDataParams(f))))
    /\ UNCHANGED <<db, fs, resolved>>

\* the trial pass registers the condition it does not find and goes on
TrialConditionCreate(r) ==
    /\ pc[r] = "trials"
    /\ \E f \in todo[r] :
        /\ ReplaceDataParams(f) \in param_files(r)
        /\ ParseError(readtrialparams(r, ReplaceDataParams(f))) = "none"
        /\ Lookup(readtrialparams(r, ReplaceDataParams(f))) = {}
        /\ db' = Insert("ConditionParams",
                        [condition_id |-> NewId(Fetch(ConditionParams, "condition_id"))])
        /\ todo' = [todo EXCEPT ![r] = @ \ {f}]
    /\ UNCHANGED <<fs, pc, loc, error, resolved>>

\* line 358: fetch1 finds no condition, or more than one
TrialConditionError(r) ==
    /\ pc[r] = "trials"
    /\ \E f \in todo[r] :
        /\ ReplaceDataParams(f) \in param_files(r)
        /\ ParseError(readtrialparams(r, ReplaceDataParams(f))) = "none"
        /\ Cardinality(Lookup(readtrialparams(r, ReplaceDataParams(f)))) # 1
        /\ Raise(r, "DataJointError")
    /\ UNCHANGED <<db, fs, resolved>>

\* lines 348-359: the condition of the trial
TrialCondition(r) ==
    /\ pc[r] = "trials"
    /\ \E f \in todo[r] :
        /\ ReplaceDataParams(f) \in param_files(r)
        /\ ParseError(readtrialparams(r, ReplaceDataParams(f))) = "none"
        /\ LET found == Lookup(readtrialparams(r, ReplaceDataParams(f)))
           IN  /\ Cardinality(found) = 1
               /\ loc' = [loc EXCEPT ![r] = [NoLoc EXCEPT
                           !.file = f,
                           !.condition_id = (CHOOSE row \in found : TRUE).condition_id]]
    /\ pc' = [pc EXCEPT ![r] = "insert_behavior_condition"]
    /\ UNCHANGED <<db, fs, todo, error, resolved>>

\* line 360
InsertBehaviorCondition(r) ==
    /\ pc[r] = "insert_behavior_condition"
    /\ db' = Insert("BehaviorCondition",
                    [recording |-> r, condition_id |-> loc[r].condition_id])
    /\ pc' = [pc EXCEPT ![r] = "insert_trial"]
    /\ UNCHANGED <<fs, todo, loc, error, resolved>>

\* lines 363-364
InsertTrial(r) ==
    /\ pc[r] = "insert_trial"
    /\ LET params == readtrialparams(r, ReplaceDataParams(loc[r].file))
           trial == loc[r].file.trial
       IN  IF "saveTag" \notin DOMAIN params
           THEN /\ Raise(r, "KeyError")
                /\ db' = db
           ELSE IF Restrict(BehaviorTrial, [recording |-> r, trial_number |-> trial]) # {}
           THEN /\ Raise(r, "DuplicateError")
                /\ db' = db
           ELSE /\ db' = Insert("BehaviorTrial",
                                [recording |-> r, trial_number |-> trial,
                                 condition_id |-> loc[r].condition_id,
                                 save_tag |-> params["saveTag"]])
                /\ pc' = [pc EXCEPT ![r] = "trials"]
                /\ todo' = [todo EXCEPT ![r] = @ \ {loc[r].file}]
                /\ loc' = [loc EXCEPT ![r] = NoLoc]
                /\ error' = error
    /\ UNCHANGED <<fs, resolved>>

\* the loop of line 336 has ended: make returns
MakeReturn(r) ==
    /\ pc[r] = "trials"
    /\ todo[r] = {}
    /\ pc' = [pc EXCEPT ![r] = "done"]
    /\ UNCHANGED <<db, fs, todo, loc, error, resolved>>

-----------------------------------------------------------------------------
(* The parameter records and directories the model draws its inputs from *)

\* {Force: max=5, offset=0.1, inverted=false; no Stim;
\*  Target: duration=2.0, offset=0.0, pad=0.1; Ramp: amplitude=0.5}
Ramp05 ==
    [frcMax |-> 5, frcOff |-> 10000, frcPol |-> 1, duration |-> 200000,
     offset |-> <<0>>, padDur |-> 10000, type |-> "RMP", amplitude |-> <<50000>>,
     saveTag |-> 1]

\* Ramp05 with amplitude=0.6
Ramp06 == [Ramp05 EXCEPT !.amplitude = <<60000>>]

StimKeys ==
    [stimCurrent |-> 50, stimElectrode |-> 7, stimPolarity |-> 0, stimPulses |-> 10,
     stimWidth1 |-> 200, stimWidth2 |-> 200, stimInterphase |-> 100,
     stimFrequency |-> 300, stimDelay |-> 20]

\* Ramp05 with stimulation on
Ramp05Stim == Ramp05 @@ [stim |-> 1] @@ StimKeys

\* Ramp05Stim with another stimulation current
Ramp05Stim2 == Ramp05 @@ [stim |-> 1] @@ [StimKeys EXCEPT !.stimCurrent = 80]

\* Ramp05 with the stimulation flag on and no stim<Name> key
Ramp05StimBare == Ramp05 @@ [stim |-> 1]

\* Ramp05Stim with a stim<Name> key that ConditionParams.Stim has no column for
Ramp05StimExtra == Ramp05Stim @@ [stimRamp |-> 1]

\* Ramp05 with the stimulation flag off and the stim<Name> keys still written
Ramp05StimOff == Ramp05 @@ [stim |-> 0] @@ StimKeys

\* a static target with another duration, pushing inverted
Static10 ==
    [frcMax |-> 5, frcOff |-> 10000, frcPol |-> -1, duration |-> 100000,
     offset |-> <<0>>, padDur |-> 10000, type |-> "STA", saveTag |-> 2]

\* Ramp05 with a baseline force of 0.12345
Ramp05Fine == [Ramp05 EXCEPT !.frcOff = 12345]

\* the other target types on the force and the target of Ramp05
Static05 ==
    [frcMax |-> 5, frcOff |-> 10000, frcPol |-> 1, duration |-> 200000,
     offset |-> <<0>>, padDur |-> 10000, type |-> "STA", saveTag |-> 1]

Sine05 == [Ramp05 EXCEPT !.type = "SIN"] @@ [frequency |-> <<20000>>]

Chirp05 == [Ramp05 EXCEPT !.type = "CHP"] @@ [frequency |-> <<20000, 30000>>]

\* Ramp05 without its padDur key
NoPadDur ==
    [frcMax |-> 5, frcOff |-> 10000, frcPol |-> 1, duration |-> 200000,
     offset |-> <<0>>, type |-> "RMP", amplitude |-> <<50000>>, saveTag |-> 1]

\* Ramp05 with a profile tag that is none of STA, RMP, SIN, CHP
UnknownType == [Ramp05 EXCEPT !.type = "TRI"]

Records ==
    {Ramp05, Ramp06, Ramp05Stim, Ramp05Stim2, Ramp05StimBare, Ramp05StimOff, Static10,
     Ramp05Fine, Static05, Sine05, Chirp05}

\* the records that differ in the target type alone
VariantRecords == {Ramp05, Static05, Sine05, Chirp05}

\* the records the recordings are filled with
CommonRecords == {Ramp05, Ramp06, Ramp05Stim, Ramp05StimBare, Static10, Ramp05Fine}

\* the records that differ in stimulation alone
StimRecords ==
    {Ramp05, Ramp05Stim, Ramp05Stim2, Ramp05StimBare, Ramp05StimOff, Ramp05StimExtra}

ShapeRecords == {Ramp05, Ramp06, NoPadDur, UnknownType}

Summary ==
    {[task_state_id |-> 0, task_state_name |-> "InitTrial"],
     [task_state_id |-> 1, task_state_name |-> "Success"]}

\* a later version of the task: state 1 renamed, Success moved
SummaryRenumbered ==
    {[task_state_id |-> 1, task_state_name |-> "Glitch"],
     [task_state_id |-> 2, task_state_name |-> "Success"]}

SummaryNoSuccess == {[task_state_id |-> 0, task_state_name |-> "InitTrial"]}

Summaries == {Summary, SummaryRenumbered, SummaryNoSuccess}

Directory(hardware, summary, params, data) ==
    [hardware |-> hardware, summary |-> summary, params |-> params, data |-> data]

\* trials 1..n, each with its parameter file and its data file
PairedDirectory(n, content) ==
    Directory("Speedgoat", Summary,
              [f \in {File("pac", t, "params") : t \in 1..n} |-> content[f.trial]],
              {File("pac", t, "data") : t \in 1..n})

Shapes == {"pair", "params_only", "data_only", "params_prefixed", "data_prefixed"}

ShapePrefix(shape) ==
    CASE shape = "params_prefixed" -> "params"
      [] shape = "data_prefixed" -> "data"
      [] OTHER -> "pac"

Entries ==
    {[shape |-> s, params |-> p] : s \in Shapes \ {"data_only"}, p \in ShapeRecords}
        \cup {[shape |-> "data_only", params |-> << >>]}

\* trials 1..n, trial t with the files entry[t] describes
ShapedDirectory(n, entry) ==
    Directory("Speedgoat", Summary,
              [f \in {File(ShapePrefix(entry[t].shape), t, "params") :
                        t \in {u \in 1..n : entry[u].shape # "data_only"}}
                  |-> entry[f.trial].params],
              {File(ShapePrefix(entry[t].shape), t, "data") :
                        t \in {u \in 1..n : entry[u].shape # "params_only"}})

EmptyDirectory == PairedDirectory(0, << >>)

\* the number of parameter files of the recordings before r
RECURSIVE FilesBefore(_, _)
FilesBefore(count, r) == IF r = 1 THEN 0 ELSE FilesBefore(count, r - 1) + count[r - 1]

\* every recording has complete pairs, MaxParamFiles parameter files at most in all
RecordFileSystems ==
    UNION {{[r \in Recordings |->
               PairedDirectory(count[r],
                               [t \in 1..count[r] |-> content[FilesBefore(count, r) + t]])] :
              content \in [1..FilesBefore(count, MaxRecordings + 1) -> CommonRecords]} :
           count \in {c \in [Recordings -> 0..MaxParamFiles] :
                        FilesBefore(c, MaxRecordings + 1) <= MaxParamFiles}}

\* the first recording has missing and oddly named files
ShapeFileSystems ==
    {[r \in Recordings |-> IF r = 1 THEN d ELSE EmptyDirectory] :
        d \in UNION {{ShapedDirectory(n, e) : e \in [1..n -> Entries]} :
                       n \in 0..MaxShapeTrials}}

\* every recording has one trial and its own summary file or hardware
SummaryFileSystems ==
    [Recordings -> {Directory(h, s, PairedDirectory(1, <<Ramp05>>).params,
                              PairedDirectory(1, <<Ramp05>>).data) :
                      h \in {"Speedgoat"}, s \in Summaries}
                   \cup {Directory("Other", Summary, << >>, {})}]

\* the first recording has Ramp05 twice and Ramp06
ExampleFileSystems ==
    {[r \in Recordings |->
        IF r = 1 THEN PairedDirectory(3, <<Ramp05, Ramp05, Ramp06>>) ELSE EmptyDirectory]}

\* the first recording fills the registry, the second one comes back to it
ReturnRecords == {Ramp05, Ramp06, Static10}

ReturnFileSystems ==
    {[r \in Recordings |->
        IF r = 1 THEN PairedDirectory(MaxParamFiles, first)
        ELSE IF r = 2 THEN PairedDirectory(1, <<second>>)
        ELSE EmptyDirectory] :
      first \in [1..MaxParamFiles -> ReturnRecords], second \in ReturnRecords}

\* the first recording has two trials with and without stimulation
StimFileSystems ==
    {[r \in Recordings |->
        IF r = 1 THEN PairedDirectory(2, <<first, second>>) ELSE EmptyDirectory] :
      first \in StimRecords, second \in StimRecords}

\* the first recording has two trials of any two target types
VariantFileSystems ==
    {[r \in Recordings |->
        IF r = 1 THEN PairedDirectory(2, <<first, second>>) ELSE EmptyDirectory] :
      first \in VariantRecords, second \in VariantRecords}

\* two complete pairs with the same trial number: pac_beh_1 and alt_beh_1
TwinDirectory(first, second) ==
    Directory("Speedgoat", Summary,
              (File("pac", 1, "params") :> first) @@ (File("alt", 1, "params") :> second),
              {File("pac", 1, "data"), File("alt", 1, "data")})

TwinFileSystems ==
    {[r \in Recordings |->
        IF r = 1 THEN TwinDirectory(first, second) ELSE EmptyDirectory] :
      first \in {Ramp05, Ramp06}, second \in {Ramp05, Ramp06}}

FileSystems ==
    RecordFileSystems \cup ShapeFileSystems \cup SummaryFileSystems
        \cup ExampleFileSystems \cup ReturnFileSystems \cup StimFileSystems
        \cup VariantFileSystems \cup TwinFileSystems

-----------------------------------------------------------------------------
(* The specification: make is called for one recording at a time, in key order *)

Init ==
    /\ db = [t \in TableNames |-> {}]
    /\ fs \in FileSystems
    /\ pc = [r \in Recordings |-> "idle"]
    /\ todo = [r \in Recordings |-> {}]
    /\ loc = [r \in Recordings |-> NoLoc]
    /\ error = [r \in Recordings |-> "none"]
    /\ resolved = {}

\* populate calls make(key) for one key after the other
Populate(r) ==
    /\ \A q \in Recordings : pc[q] \in {"idle", "done", "raised"}
    /\ \A q \in Recordings : q < r => pc[q] # "idle"
    /\ MakeStart(r)

\* make is called again for a recording it was called for
Again(r) ==
    /\ \A q \in Recordings : pc[q] \in {"idle", "done", "raised"}
    /\ MakeAgain(r)

Next ==
    \E r \in Recordings :
        \/ Populate(r)
        \/ Again(r)
        \/ MissingDataFile(r)
        \/ ParamsParseError(r)
        \/ ConditionExists(r)
        \/ NewCondition(r)
        \/ InsertConditionParams(r)
        \/ PartContinue(r)
        \/ ResolvePartId(r)
        \/ InsertPart(r)
        \/ InsertTargetType(r)
        \/ FetchSuccessState(r)
        \/ MissingParamsFile(r)
        \/ TrialParseError(r)
        \/ TrialConditionError(r)
        \/ TrialCondition(r)
        \/ InsertBehaviorCondition(r)
        \/ InsertTrial(r)
        \/ MakeReturn(r)

Spec == Init /\ [][Next]_vars

-----------------------------------------------------------------------------
(* The same with conditions removed by hand between calls of make *)

\* (ConditionParams & {'condition_id': c}).delete(): the condition and all that
\* refers to it
Remove(c) ==
    /\ \A q \in Recordings : pc[q] \in {"idle", "done", "raised"}
    /\ c \in Fetch(ConditionParams, "condition_id")
    /\ db' = [t \in TableNames |->
                IF t \in {"TaskState", "Behavior"} THEN db[t]
                ELSE {row \in db[t] : row.condition_id # c}]
    /\ resolved' = {e \in resolved : e.condition_id # c}
    /\ UNCHANGED <<fs, pc, todo, loc, error>>

NextRemovals == Next \/ \E c \in Fetch(ConditionParams, "condition_id") : Remove(c)

SpecRemovals == Init /\ [][NextRemovals]_vars

-----------------------------------------------------------------------------
(* make is called for two recordings at once, every insert visible to both *)

\* one trial, or none that make binds
RaceDirectories ==
    {PairedDirectory(1, <<p>>) : p \in {Ramp05, Static10, Ramp05Stim, Ramp05Stim2}}
        \cup {ShapedDirectory(1, <<e>>) :
                 e \in {[shape |-> "params_only", params |-> Ramp05],
                        [shape |-> "data_only", params |-> << >>],
                        [shape |-> "pair", params |-> NoPadDur],
                        [shape |-> "params_prefixed", params |-> NoPadDur]}}

RaceFileSystems ==
    {[r \in Recordings |->
        IF r = 1 THEN first ELSE IF r = 2 THEN second ELSE EmptyDirectory] :
      first \in RaceDirectories, second \in RaceDirectories}

InitRace ==
    /\ db = [t \in TableNames |-> {}]
    /\ fs \in RaceFileSystems
    /\ pc = [r \in Recordings |-> "idle"]
    /\ todo = [r \in Recordings |-> {}]
    /\ loc = [r \in Recordings |-> NoLoc]
    /\ error = [r \in Recordings |-> "none"]
    /\ resolved = {}

NextRace ==
    \E r \in Recordings :
        \/ MakeStart(r)
        \/ MakeAgain(r)
        \/ MissingDataFile(r)
        \/ ParamsParseError(r)
        \/ ConditionExists(r)
        \/ NewCondition(r)
        \/ InsertConditionParams(r)
        \/ PartContinue(r)
        \/ ResolvePartId(r)
        \/ InsertPart(r)
        \/ InsertTargetType(r)
        \/ FetchSuccessState(r)
        \/ MissingParamsFile(r)
        \/ TrialParseError(r)
        \/ TrialConditionError(r)
        \/ TrialCondition(r)
        \/ InsertBehaviorCondition(r)
        \/ InsertTrial(r)
        \/ MakeReturn(r)

SpecRace == InitRace /\ [][NextRace]_vars

-----------------------------------------------------------------------------
(* Claims *)

ConditionPass == {"conditions", "insert_condition", "part", "insert_part", "insert_target_type"}

TrialPass == {"trials", "insert_behavior_condition", "insert_trial"}

\* the parameter files the loop of line 270 reads: those with a data file
ReadForCondition(r) == {f \in param_files(r) : ReplaceParamsData(f) \in data_files(r)}

ConditionIds(params) == Fetch(Lookup(params), "condition_id")

\* C1: condition resolution is idempotent: a bundle that was resolved once resolves
\* to the same condition_id whenever an attribute-identical bundle is resolved
\* again, and the second resolution creates no condition.
C1_ResolutionIdempotent ==
    /\ \A d, e \in resolved : d.bundle = e.bundle => d.condition_id = e.condition_id
    /\ \A r \in Recordings : pc[r] = "conditions" =>
         \A f \in todo[r] \cap ReadForCondition(r) :
           ParseError(readtrialparams(r, f)) = "none" =>
             \A e \in resolved : e.bundle = parseparams(readtrialparams(r, f)) =>
                 ConditionIds(readtrialparams(r, f)) = {e.condition_id}

IsSmallestUnused(i, ids) == i \in Nat /\ i \notin ids /\ \A j \in 0..(i - 1) : j \in ids

\* C2: whenever a new condition_id, force_id, stim_id or target_id is allocated, it
\* is the smallest non-negative integer not in use in its id space at that moment,
\* also when the ids in use have gaps.
C2_MinimalId ==
    [][\A r \in Recordings :
         /\ (pc[r] = "conditions" /\ pc'[r] = "insert_condition") =>
               IsSmallestUnused(loc'[r].condition_id, Fetch(ConditionParams, "condition_id"))
         /\ (/\ pc[r] = "part"
             /\ pc'[r] = "insert_part"
             /\ Restrict(db[loc[r].part], cond_part_attr(r)) = {}) =>
               IsSmallestUnused(loc'[r].part_id,
                                Fetch(db[loc[r].part], cond_part_id(loc[r].part)))]_vars

\* a new part id is about to be inserted below an id that is in use
C2_GapFilled ==
    \E r \in Recordings :
        /\ pc[r] = "insert_part"
        /\ loc[r].part_id \notin Fetch(db[loc[r].part], cond_part_id(loc[r].part))
        /\ \E i \in Fetch(db[loc[r].part], cond_part_id(loc[r].part)) : loc[r].part_id < i

PartAttributes(part, row) ==
    [k \in (DOMAIN row) \ {"condition_id", cond_part_id(part)} |-> row[k]]

\* C3: in each of Force, Stim and Target, two rows carry the same sub-group id if and
\* only if all their sub-group attributes are equal.
C3_SharedPartIds ==
    \A part \in {"Force", "Stim", "Target"} : \A a, b \in db[part] :
        (a[cond_part_id(part)] = b[cond_part_id(part)])
            <=> (PartAttributes(part, a) = PartAttributes(part, b))

HasStim(c) == \E s \in Stim : s.condition_id = c

\* C4: the lookup never matches a bundle without Stim to a condition that has a Stim
\* row, nor a bundle with Stim to a condition that has none; two bundles that differ
\* in the presence of Stim never resolve to the same condition_id.
C4_StimPresence ==
    /\ \A p \in Records : \A c \in ConditionIds(p) : StimOn(p) <=> HasStim(c)
    /\ \A d, e \in resolved :
         d.bundle.with_stim # e.bundle.with_stim => d.condition_id # e.condition_id

PartIdOf(part, c) == Fetch(Restrict(db[part], [condition_id |-> c]), cond_part_id(part))

\* Ramp05 was resolved on the empty registry, and nothing but the example's bundles
ExampleFirst ==
    /\ [bundle |-> parseparams(Ramp05), condition_id |-> 0] \in resolved
    /\ \A e \in resolved : e.bundle \in {parseparams(Ramp05), parseparams(Ramp06)}

\* and Ramp06 was the next bundle to need a condition
ExampleThird ==
    /\ ExampleFirst
    /\ [bundle |-> parseparams(Ramp06), condition_id |-> 1] \in resolved

ExampleCommon ==
    /\ ExampleFirst =>
         /\ \A e \in resolved : e.bundle = parseparams(Ramp05) => e.condition_id = 0
         /\ ConditionIds(Ramp05) = {0}
         /\ PartIdOf("Force", 0) = {0}
         /\ PartIdOf("Target", 0) = {0}
    /\ ExampleThird => PartIdOf("Force", 1) = {0}

\* C5 as the spec words it: on an empty registry Ramp05 yields condition_id=0,
\* force_id=0, target_id=0; an identical bundle yields condition_id=0 again; Ramp06,
\* differing in the amplitude only, yields condition_id=1 and a new target_id=1 and
\* reuses force_id=0.
C5_ExampleAsWritten ==
    /\ ExampleCommon
    /\ ExampleThird => PartIdOf("Target", 1) = {1}

\* C5: on an empty registry Ramp05 yields condition_id=0, force_id=0, target_id=0; an
\* identical bundle yields condition_id=0 again; Ramp06, differing in the amplitude
\* only, yields condition_id=1 and reuses force_id=0 and target_id=0: its amplitude
\* is a new Ramp row of condition 1 and target 0.
C5_Example ==
    /\ ExampleCommon
    /\ ExampleThird =>
         /\ PartIdOf("Target", 1) = {0}
         /\ Restrict(Ramp, [condition_id |-> 1])
              = {[condition_id |-> 1, target_id |-> 0, target_amplitude |-> 60000]}

\* the three bundles of the example were ingested by one finished call of make
C5_ExampleRun ==
    /\ fs \in ExampleFileSystems
    /\ pc[1] = "done"
    /\ ExampleThird
    /\ Cardinality(Restrict(BehaviorTrial, [condition_id |-> 0])) = 2

RegistryTables ==
    {"ConditionParams", "Force", "Stim", "Target", "Static", "Ramp", "Sine", "Chirp"}

Registry == [t \in RegistryTables |-> db[t]]

RowsOf(table, r) == Restrict(db[table], [recording |-> r])

\* the parameter files the loop of line 336 reads: those a data file is paired with
ReadForTrial(r) == {ReplaceDataParams(f) : f \in data_files(r)} \cap param_files(r)

\* the condition of every trial bound so far is the one its parameter file resolves to
TrialsFollowLookup(r) ==
    \A t \in RowsOf("BehaviorTrial", r) : \E f \in ReadForTrial(r) :
        /\ f.trial = t.trial_number
        /\ ConditionIds(readtrialparams(r, f)) = {t.condition_id}

\* C6: within one call of make, TaskState is written before any condition is
\* resolved; every insert into ConditionParams and its part tables happens before the
\* first insert into Behavior.Condition or Behavior.Trial, so the trial pass inserts
\* nothing there; the condition_id bound to a trial does not depend on the order in
\* which the data files are visited.
C6_ThreePhases ==
    /\ [][/\ TaskState' # TaskState =>
                \E r \in Recordings : pc[r] = "idle" /\ pc'[r] = "conditions"
          /\ Registry' # Registry =>
                \E r \in Recordings :
                    /\ pc[r] \in ConditionPass
                    /\ RowsOf("BehaviorCondition", r)' = {}
                    /\ RowsOf("BehaviorTrial", r)' = {}
          /\ (BehaviorCondition' # BehaviorCondition \/ BehaviorTrial' # BehaviorTrial) =>
                \E r \in Recordings : pc[r] \in TrialPass /\ Registry' = Registry]_vars
    /\ [](\A r \in Recordings : pc[r] \in TrialPass => TrialsFollowLookup(r))

\* a call of make has bound two trials to two conditions and is still binding
C6_TwoTrialsBound ==
    \E r \in Recordings :
        /\ pc[r] \in TrialPass
        /\ Cardinality(RowsOf("BehaviorTrial", r)) = 2
        /\ Cardinality(RowsOf("BehaviorCondition", r)) = 2

ParseErrors == {"KeyError", "UnboundLocalError"}

Malformed(r, files) == {f \in files : ParseError(readtrialparams(r, f)) # "none"}

CompletePairs(r) ==
    {f.trial : f \in {g \in param_files(r) : [g EXCEPT !.ext = "data"] \in data_files(r)}}

\* C8: a parameter file without its data file and a data file without its parameter
\* file produce no Trial, and every complete pair has exactly one Trial when the
\* call returns.
C8_MissingCounterpartSkipped ==
    \A r \in Recordings :
        /\ Fetch(RowsOf("BehaviorTrial", r), "trial_number") \subseteq CompletePairs(r)
        /\ pc[r] = "done" =>
              /\ Fetch(RowsOf("BehaviorTrial", r), "trial_number") = CompletePairs(r)
              /\ Cardinality(RowsOf("BehaviorTrial", r)) = Cardinality(CompletePairs(r))

Without(row, keys) == [k \in (DOMAIN row) \ keys |-> row[k]]

\* what a condition consists of, its ids left out
Content(c) ==
    [t \in RegistryTables \ {"ConditionParams"} |->
        {Without(row, {"condition_id", "force_id", "stim_id", "target_id"}) :
            row \in Restrict(db[t], [condition_id |-> c])}]

\* C9: no two condition_ids have the same content (Force, presence and attributes of
\* Stim, Target, variant kind and attributes), and the lookup of a bundle returns at
\* most one condition_id.
C9_ConditionsUnique ==
    /\ \A c, d \in Fetch(ConditionParams, "condition_id") :
         c # d => Content(c) # Content(d)
    /\ \A p \in Records : Cardinality(ConditionIds(p)) <= 1

\* the conditions whose part rows are being written
UnderConstruction ==
    {loc[r].condition_id : r \in {q \in Recordings : pc[q] \in ConditionPass \ {"conditions"}}}

TypeRows(c) ==
    UNION {Restrict(db[t], [condition_id |-> c]) : t \in {"Static", "Ramp", "Sine", "Chirp"}}

TypeTablesOf(c) ==
    {t \in {"Static", "Ramp", "Sine", "Chirp"} : Restrict(db[t], [condition_id |-> c]) # {}}

C10_TwoConditions ==
    \E c, d \in Fetch(ConditionParams, "condition_id") \ UnderConstruction :
        /\ c < d
        /\ HasStim(c)
        /\ ~ HasStim(d)
        /\ PartIdOf("Target", d) = PartIdOf("Target", c)
        /\ \A r \in Recordings : pc[r] \in {"idle", "done", "raised"}

\* C11: for each recording, Behavior.Condition holds exactly the (recording,
\* condition_id) pairs that a Behavior.Trial row of the recording refers to, and every
\* Trial row refers to a condition_id of ConditionParams; stated for every state in
\* which the recording's call is not between the inserts of lines 360 and 364.
C11_BehaviorConditionLazy ==
    \A r \in Recordings : pc[r] # "insert_trial" =>
        /\ Fetch(RowsOf("BehaviorCondition", r), "condition_id")
              = Fetch(RowsOf("BehaviorTrial", r), "condition_id")
        /\ Fetch(RowsOf("BehaviorTrial", r), "condition_id")
              \subseteq Fetch(ConditionParams, "condition_id")

\* C12: when two calls of make allocate the same new id, the later insert is rejected
\* and nothing is overwritten, so that no condition_id, force_id, stim_id or target_id
\* stands for two different attribute contents.
C12_RacesDetected ==
    /\ \A part \in {"Force", "Stim", "Target"} : \A a, b \in db[part] :
         a[cond_part_id(part)] = b[cond_part_id(part)]
            => PartAttributes(part, a) = PartAttributes(part, b)
    /\ \A c \in Fetch(ConditionParams, "condition_id") :
         \A part \in {"Force", "Stim", "Target"} :
            Cardinality(Restrict(db[part], [condition_id |-> c])) <= 1

\* C13: once an insert has failed and ended a call of make, the tables hold no
\* condition_id that lacks its Force row, its Target row or its variant row.
C13_AllocationAtomic ==
    \A r \in Recordings : pc[r] = "raised" =>
        \A c \in Fetch(ConditionParams, "condition_id") \ UnderConstruction :
            /\ Restrict(Force, [condition_id |-> c]) # {}
            /\ Restrict(Target, [condition_id |-> c]) # {}
            /\ TypeRows(c) # {}

\* C14: a call of make for a recording that has its Behavior entry ends at once with
\* DuplicateError and changes no table, and the insert of a Trial whose (recording,
\* trial_number) exists ends the call with DuplicateError and leaves the Trial rows as
\* they are.
C14_ReingestionRejected ==
    [][\A r \in Recordings :
         /\ (pc[r] \in {"done", "raised"} /\ <<pc[r], error[r]>>' # <<pc[r], error[r]>>) =>
               /\ db' = db
               /\ pc'[r] = "raised"
               /\ error'[r] = "DuplicateError"
         /\ (/\ pc[r] = "insert_trial"
             /\ pc'[r] # pc[r]
             /\ Restrict(BehaviorTrial,
                         [recording |-> r, trial_number |-> loc[r].file.trial]) # {}) =>
               /\ BehaviorTrial' = BehaviorTrial
               /\ pc'[r] = "raised"
               /\ error'[r] = "DuplicateError"]_vars

\* one call was ended by the Trial of a second pac_beh_1/alt_beh_1 pair, another by
\* the Behavior entry of its recording
C14_BothRejected ==
    \E r, q \in Recordings :
        /\ r # q
        /\ error[r] = "DuplicateError"
        /\ Cardinality(RowsOf("BehaviorCondition", r)) = 2
        /\ Cardinality(RowsOf("BehaviorTrial", r)) = 1
        /\ error[q] = "DuplicateError"
        /\ RowsOf("BehaviorTrial", q) = {}

\* C15: TaskState never holds two rows with the same task_state_name, so the fetch1
\* of line 334 never finds more than one row named Success.
C15_TaskStateByName ==
    /\ \A a, b \in TaskState : a.task_state_name = b.task_state_name => a = b
    /\ \A r \in Recordings : (pc[r] = "conditions" /\ todo[r] = {}) =>
         Cardinality(Restrict(TaskState, [task_state_name |-> "Success"])) <= 1

\* C16: no step of make removes or changes a row of ConditionParams, of Force, Stim,
\* Target, Static, Ramp, Sine or Chirp, or of TaskState; a task_state_id keeps its name
\* when a later summary lists the id with another name.
C16_AppendOnly ==
    [][\A t \in RegistryTables \cup {"TaskState"} : db[t] \subseteq db'[t]]_vars

\* a summary that lists id 1 as Glitch was inserted after id 1 was named Success
C16_NameKept ==
    \E r \in Recordings :
        /\ pc[r] # "idle"
        /\ [task_state_id |-> 1, task_state_name |-> "Glitch"] \in fs[r].summary
        /\ [task_state_id |-> 1, task_state_name |-> "Success"] \in TaskState
        /\ [task_state_id |-> 2, task_state_name |-> "Success"] \in TaskState

TagTable == [STA |-> "Static", RMP |-> "Ramp", SIN |-> "Sine", CHP |-> "Chirp"]

TagFields ==
    [STA |-> {},
     RMP |-> {"target_amplitude"},
     SIN |-> {"target_amplitude", "target_frequency"},
     CHP |-> {"target_amplitude", "target_frequency_init", "target_frequency_final"}]

\* C17: a bundle with tag STA, RMP, SIN or CHP writes its variant row into Static,
\* Ramp, Sine or Chirp respectively and into no other variant table, with the fields
\* of that variant and no others; its lookup matches no condition whose variant row
\* is in another table, also when Force, Stim and Target are equal.
C17_VariantExclusive ==
    /\ [][\A r \in Recordings :
            (pc[r] = "insert_target_type" /\ pc'[r] # pc[r]) =>
                LET tag == readtrialparams(r, loc[r].file)["type"]
                IN  /\ \A t \in {"Static", "Ramp", "Sine", "Chirp"} \ {TagTable[tag]} :
                          db'[t] = db[t]
                    /\ \E row \in db'[TagTable[tag]] \ db[TagTable[tag]] :
                          /\ db'[TagTable[tag]] = db[TagTable[tag]] \cup {row}
                          /\ row.condition_id = loc[r].condition_id
                          /\ DOMAIN row = {"condition_id", "target_id"} \cup TagFields[tag]]_vars
    /\ [](\A p \in Records : \A c \in ConditionIds(p) : TypeTablesOf(c) = {TagTable[p["type"]]})

\* a Sine and a Chirp condition on the same target, both found by their own lookup
C17_SineAndChirp ==
    /\ Sine # {}
    /\ Fetch(Sine, "target_id") = Fetch(Chirp, "target_id")
    /\ ConditionIds(Sine05) # {}
    /\ ConditionIds(Chirp05) # {}
    /\ \A r \in Recordings : pc[r] \in {"idle", "done", "raised"}

\* C18: every parameter file the trial pass pairs with a data file was read by the
\* condition pass, and the lookup of its bundle at line 358 finds exactly one
\* condition.
C18_TrialFindsCondition ==
    \A r \in Recordings : pc[r] = "trials" =>
        \A f \in todo[r] :
            (/\ ReplaceDataParams(f) \in param_files(r)
             /\ ParseError(readtrialparams(r, ReplaceDataParams(f))) = "none") =>
                /\ ReplaceDataParams(f) \in ReadForCondition(r)
                /\ Cardinality(Lookup(readtrialparams(r, ReplaceDataParams(f)))) = 1

\* C19: a condition made from, or found for, a record with the stim flag equal to 1
\* has exactly one Stim row, and one for a record with another flag or none has no
\* Stim row, whatever stim<Name> keys the record has.
C19_StimFollowsFlag ==
    \A e \in resolved :
        Cardinality(Restrict(Stim, [condition_id |-> e.condition_id]))
            = IF e.bundle.with_stim THEN 1 ELSE 0

====
